---- MODULE Spec2Model ----
(***************************************************************************)
(* Radiation Monitor integration: the update coordinator's                 *)
(* fetch / parse / retry / fallback logic (RadiationUpdateCoordinator in   *)
(* custom_components/radiation_monitor/__init__.py) together with the      *)
(* set-up and unloading of its config entry.                               *)
(*                                                                         *)
(* One config entry (one installation) is modelled.  A refresh is the     *)
(* host's DataUpdateCoordinator calling _async_update_data and storing     *)
(* what it returns in coordinator.data; an UpdateFailed leaves             *)
(* coordinator.data as it was.                                             *)
(*                                                                         *)
(* Numbers: raw_value is a natural number; value is kept in thousandths   *)
(* (round(x, 3) has three decimals), so value = 40 stands for 0.04.        *)
(***************************************************************************)
EXTENDS Integers, Sequences, FiniteSets, TLC

VARIABLES
    phase,                \* "absent" | "first_refresh" | "loaded"
    registry,             \* hass.data[DOMAIN]: the entry ids holding a coordinator
    stamp,                \* coordinator.stamp (0: no coordinator)
    divisor,              \* coordinator.divisor (0: no coordinator)
    data,                 \* coordinator.data: None or a Reading
    last_update_success,  \* coordinator.last_update_success
    pc,                   \* position of _async_update_data
    retry_count,          \* its local retry_count
    clock,                \* datetime.utcnow(), in ticks
    requests,             \* session.get calls of the current / last refresh
    waits,                \* asyncio.sleep calls of the current / last refresh
    slept,                \* seconds slept in the current / last refresh
    outcomes,             \* what each request of the current / last refresh met
    lastStatus,           \* the status of the last response (0: none)
    lastItems,            \* the array in the last response's body (else << >>)
    dataBefore,           \* coordinator.data when the current / last refresh began
    lastOutcome,          \* "none" | "pending" | "returned" | "raised"
    lastResult,           \* what the last refresh returned
    lastHeader,           \* the stamp header of the last request (0: none yet)
    hadReading,           \* some refresh of this coordinator has returned a Reading
    ctorStamp,            \* the stamp the coordinator was constructed with
    ctorDivisor,          \* the divisor the coordinator was constructed with
    installStamp,         \* the stamp of the installation's first set-up (0: none)
    configured,           \* the station codes that have a config entry
    flowResult,           \* what the last async_step_user returned
    flowMet,              \* what the request of its _test_station_code met
    testStamp,            \* the stamp header of that request (0: none)
    service_registered,   \* hass.services has update_radiation_data
    entityRegistered,     \* the entity registry holds this entry's sensor
    callEntity,           \* the entity_id of the last service call
    callResult,           \* how the last service call ended
    callTarget,           \* the entry whose coordinator it asked to refresh
    otherEntity,          \* the entity registry holds the second entry's sensor
    unloadFailed          \* the last async_unload_entry of the entry returned False

vars == <<phase, registry, stamp, divisor, data, last_update_success, pc,
          retry_count, clock, requests, waits, slept, outcomes, lastStatus,
          lastItems, dataBefore, lastOutcome, lastResult, lastHeader, hadReading, ctorStamp,
          ctorDivisor, installStamp, configured, flowResult, flowMet,
          testStamp, service_registered, entityRegistered, callEntity,
          callResult, callTarget, otherEntity, unloadFailed>>

\* the state of the config flow and of the last service call
flowCallVars == <<configured, flowResult, flowMet, testStamp, callEntity,
                  callResult, callTarget, otherEntity>>

\* the same with the answer of the last unload: what no step of a refresh
\* touches
hostVars == <<flowCallVars, unloadFailed>>

\* everything but the config flow's, the service call's and the unload's own
\* state
coordVars == <<phase, registry, stamp, divisor, data, last_update_success,
               pc, retry_count, clock, requests, waits, slept, outcomes,
               lastStatus, lastItems, dataBefore, lastOutcome, lastResult,
               lastHeader, hadReading, ctorStamp, ctorDivisor, installStamp,
               service_registered, entityRegistered>>

(***************************************************************************)
(* Bounds of the model.                                                    *)
(***************************************************************************)
MaxClock == 6
MaxLen == 2

(***************************************************************************)
(* Program constants.                                                      *)
(***************************************************************************)
max_retries == 3
RetryWait == 2
StampMin == 20
StampMax == 999
DivisorBase == 1001
Thousandths == 1000
HTTP_OK == 200

EntryId == "entry1"
StationCode == "ST1"

\* a second config entry of the integration and its station code
OtherEntryId == "entry2"

OtherStationCode == "ZZ9"

None == [absent |-> TRUE]

\* `if self.data:` -- None is falsy, a Reading (a non-empty dict) is truthy.
Truthy(d) == d # None

StampRange == StampMin..StampMax
StampChoices == {StampMin, 500, 985, StampMax}

\* 1000 - stamp
DivisorOffByOne(st) == DivisorBase - 1 - st

\* divisor = 1001 - stamp
Divisor(st) == DivisorBase - st

(***************************************************************************)
(* What a request can meet.  A sample is one element of the JSON array;   *)
(* a key that is absent has its has_ flag FALSE.                           *)
(***************************************************************************)
Sample(hv, v, hd, d, hc, c) ==
    [has_value |-> hv, value |-> v, has_date |-> hd, date |-> d,
     has_code |-> hc, code |-> c]

Samples ==
    { Sample(TRUE, 10, TRUE, 1, TRUE, "ST1"),
      Sample(TRUE, 20, TRUE, 2, TRUE, "ZZ9"),
      Sample(TRUE, 1, FALSE, 0, FALSE, ""),
      Sample(FALSE, 0, TRUE, 1, TRUE, "ST1") }

Arrays == UNION { [1..n -> Samples] : n \in 0..MaxLen }

\* a response body: text that is JSON for `items`, or text that is no JSON
Bodies == { [valid |-> TRUE, items |-> a] : a \in Arrays }
            \cup { [valid |-> FALSE, items |-> << >>] }

Statuses == {200, 204, 500}

Response(s, b) == [kind |-> "response", status |-> s, body |-> b]
ClientError == [kind |-> "client_error", status |-> 0,
                body |-> [valid |-> FALSE, items |-> << >>]]
OtherException == [kind |-> "other_exc", status |-> 0,
                   body |-> [valid |-> FALSE, items |-> << >>]]

Outcomes == { Response(s, b) : s \in Statuses, b \in Bodies }
              \cup { ClientError, OtherException }

(***************************************************************************)
(* Timestamps: the sample's `date` string, or datetime.utcnow().isoformat()*)
(***************************************************************************)
DateTs(d) == [src |-> "date", t |-> d]
NowTs(now) == [src |-> "utcnow", t |-> now]

\* round(n / d, 3) in thousandths, ties to even (Python's round)
RoundHalfEven(n, d) ==
    LET q == n \div d
        r == n % d
    IN  IF 2 * r < d THEN q
        ELSE IF 2 * r > d THEN q + 1
        ELSE IF q % 2 = 0 THEN q ELSE q + 1

ScaledValue(last_value, dv) == RoundHalfEven(last_value * Thousandths, dv)

\* json.loads(response_text), then the latin-1 re-decoding of the same text:
\* the re-decoding leaves every ASCII character, so all of JSON's syntax, as
\* it was, and text that is no JSON stays no JSON.
JsonLoads(body) == [ok |-> body.valid, data |-> body.items]

JsonLoadsLatin1(body) == JsonLoads(body)

ParseBody(body) ==
    IF JsonLoads(body).ok THEN JsonLoads(body) ELSE JsonLoadsLatin1(body)

\* data[0] instead of data[-1]
FirstEntry(items) == items[1]

\* data[-1]
LastEntry(items) == items[Len(items)]

\* the placeholder of lines 182-191
Placeholder(st, dv, now) ==
    [value |-> 0, raw_value |-> 0, timestamp |-> NowTs(now),
     station_code |-> StationCode, returned_code |-> "unknown",
     stamp |-> st, divisor |-> dv, status |-> "No data available"]

\* the Reading of lines 201-209
FreshReading(last_entry, st, dv, now) ==
    [value |-> ScaledValue(last_entry.value, dv),
     raw_value |-> last_entry.value,
     timestamp |-> IF last_entry.has_date THEN DateTs(last_entry.date)
                   ELSE NowTs(now),
     station_code |-> StationCode,
     returned_code |-> IF last_entry.has_code THEN last_entry.code
                       ELSE "unknown",
     stamp |-> st, divisor |-> dv]

(***************************************************************************)
(* One pass of the while loop.  The result says how the pass ends:        *)
(*   "return"          _async_update_data returns val                      *)
(*   "raise"           UpdateFailed leaves _async_update_data              *)
(*   "exception"       an exception reaches the outer except clause        *)
(*   "sleep_continue"  asyncio.sleep(2), then the next pass                *)
(*   "sleep_break"     asyncio.sleep(2), then the break of line 241        *)
(***************************************************************************)
Ctl(c, v, rc) == [ctl |-> c, val |-> v, rc |-> rc]

\* `if self.data: return self.data` followed by `raise UpdateFailed(...)`,
\* inside the outer try
StaleOrFail(d, rc) ==
    IF Truthy(d) THEN Ctl("return", d, rc) ELSE Ctl("exception", None, rc)

\* a non-200 status handled like a transport failure: it takes a retry
OnBadStatusAsRetry(d, rc) ==
    IF rc + 1 >= max_retries
    THEN StaleOrFail(d, rc + 1)
    ELSE Ctl("sleep_continue", None, rc + 1)

\* lines 140-145
OnBadStatus(d, rc) == StaleOrFail(d, rc)

\* lines 163-167
OnParseError(d, rc) == StaleOrFail(d, rc)

\* the variant that treats an empty array as an error
OnEmptyAsError(d, rc, st, dv, now) == StaleOrFail(d, rc)

\* lines 175-191
OnEmpty(d, rc, st, dv, now) ==
    IF Truthy(d) THEN Ctl("return", d, rc)
    ELSE Ctl("return", Placeholder(st, dv, now), rc)

\* lines 210-214
OnKeyError(d, rc) == StaleOrFail(d, rc)

\* lines 193-214
OnSamples(items, d, rc, st, dv, now) ==
    LET last_entry == LastEntry(items)
    IN  IF last_entry.has_value
        THEN Ctl("return", FreshReading(last_entry, st, dv, now), rc)
        ELSE OnKeyError(d, rc)

\* a handler that decodes the body of every response of the 2xx range
HandleResponseAny2xx(o, d, rc, st, dv, now) ==
    IF o.status \notin 200..299 THEN OnBadStatus(d, rc)
    ELSE LET parsed == ParseBody(o.body)
         IN  IF ~parsed.ok THEN OnParseError(d, rc)
             ELSE IF Len(parsed.data) = 0 THEN OnEmpty(d, rc, st, dv, now)
             ELSE OnSamples(parsed.data, d, rc, st, dv, now)

\* lines 140-214: the response has arrived
HandleResponse(o, d, rc, st, dv, now) ==
    IF o.status # HTTP_OK THEN OnBadStatus(d, rc)
    ELSE LET parsed == ParseBody(o.body)
         IN  IF ~parsed.ok THEN OnParseError(d, rc)
             ELSE IF Len(parsed.data) = 0 THEN OnEmpty(d, rc, st, dv, now)
             ELSE OnSamples(parsed.data, d, rc, st, dv, now)

\* the retry without the asyncio.sleep(2) before it
OnClientErrorNoWait(d, rc) ==
    IF rc + 1 >= max_retries
    THEN StaleOrFail(d, rc + 1)
    ELSE Ctl("attempt", None, rc + 1)

\* a retry that is not counted against the budget
OnClientErrorUncounted(d, rc) == Ctl("sleep_continue", None, rc)

\* lines 216-226: except aiohttp.ClientError
OnClientError(d, rc) ==
    IF rc + 1 >= max_retries
    THEN StaleOrFail(d, rc + 1)
    ELSE Ctl("sleep_continue", None, rc + 1)

\* exhaustion that returns self.data whether or not there is any
OnExceptionNeverRaises(d, rc) ==
    IF rc + 1 >= max_retries
    THEN Ctl("return", d, rc + 1)
    ELSE Ctl("sleep_break", None, rc + 1)

\* lines 228-238: except Exception
OnException(d, rc) ==
    IF rc + 1 >= max_retries
    THEN IF Truthy(d) THEN Ctl("return", d, rc + 1)
         ELSE Ctl("raise", None, rc + 1)
    ELSE Ctl("sleep_break", None, rc + 1)

\* lines 116-238: one pass, from the request to the end of the try statement
Iteration(o, d, rc, st, dv, now) ==
    LET inner == CASE o.kind = "client_error" -> OnClientError(d, rc)
                   [] o.kind = "other_exc" -> Ctl("exception", None, rc)
                   [] OTHER -> HandleResponse(o, d, rc, st, dv, now)
    IN  IF inner.ctl = "exception" THEN OnException(d, inner.rc) ELSE inner

\* what the request met, for the record of the refresh
Kind(o) ==
    CASE o.kind # "response" -> o.kind
      [] o.status # HTTP_OK -> "bad_status"
      [] ~o.body.valid -> "undecodable"
      [] Len(o.body.items) = 0 -> "empty"
      [] o.body.items[Len(o.body.items)].has_value -> "sample"
      [] OTHER -> "no_value"

\* a stamp drawn anew for the request, as _test_station_code does
HeaderStampFresh(st) == IF st = StampMin THEN StampMax ELSE StampMin

\* headers = {"stamp": str(self.stamp)}
HeaderStamp(st) == st

(***************************************************************************)
(* The state after async_setup: the service is registered, nothing is set  *)
(* up yet; the config entry exists already or is still to be created.      *)
(***************************************************************************)
Init ==
    /\ configured \in {{}, {StationCode}, {StationCode, OtherStationCode}}
    /\ flowResult = "none"
    /\ flowMet = "nothing"
    /\ testStamp = 0
    /\ service_registered = TRUE
    /\ entityRegistered = FALSE
    /\ callEntity = "none"
    /\ callResult = "none"
    /\ callTarget = "none"
    /\ otherEntity = FALSE
    /\ unloadFailed = FALSE
    /\ phase = "absent"
    /\ registry = {}
    /\ stamp = 0
    /\ divisor = 0
    /\ data = None
    /\ last_update_success = TRUE
    /\ pc = "idle"
    /\ retry_count = 0
    /\ clock = 0
    /\ requests = 0
    /\ waits = 0
    /\ slept = 0
    /\ outcomes = << >>
    /\ lastStatus = 0
    /\ lastItems = << >>
    /\ dataBefore = None
    /\ lastOutcome = "none"
    /\ lastResult = None
    /\ lastHeader = 0
    /\ hadReading = FALSE
    /\ ctorStamp = 0
    /\ ctorDivisor = 0
    /\ installStamp = 0

\* _async_update_data is entered: max_retries = 3, retry_count = 0
EnterUpdate(d) ==
    /\ pc' = "attempt"
    /\ retry_count' = 0
    /\ requests' = 0
    /\ waits' = 0
    /\ slept' = 0
    /\ outcomes' = << >>
    /\ lastStatus' = 0
    /\ lastItems' = << >>
    /\ dataBefore' = d
    /\ lastOutcome' = "pending"
    /\ lastResult' = None

(***************************************************************************)
(* async_setup_entry up to the first refresh: a stamp is drawn, the        *)
(* coordinator is constructed with it and its first refresh begins.        *)
(***************************************************************************)
SetupEntry(stamps) ==
    /\ StationCode \in configured
    /\ phase = "absent"
    /\ pc = "idle"
    /\ clock + max_retries <= MaxClock
    /\ \E st \in stamps :
          /\ stamp' = st
          /\ divisor' = Divisor(st)
          /\ ctorStamp' = st
          /\ ctorDivisor' = Divisor(st)
          /\ installStamp' = IF installStamp = 0 THEN st ELSE installStamp
    /\ phase' = "first_refresh"
    /\ data' = None
    /\ last_update_success' = TRUE
    /\ hadReading' = FALSE
    /\ lastHeader' = 0
    /\ EnterUpdate(None)
    /\ UNCHANGED <<registry, clock, service_registered, entityRegistered>>
    /\ UNCHANGED hostVars

\* the scheduled refresh of a loaded entry, or a requested one
RefreshStart ==
    /\ phase = "loaded"
    /\ pc = "idle"
    /\ clock + max_retries <= MaxClock
    /\ EnterUpdate(data)
    /\ UNCHANGED <<phase, registry, stamp, divisor, data, last_update_success,
                   clock, lastHeader, hadReading, ctorStamp, ctorDivisor,
                   installStamp, service_registered, entityRegistered>>
    /\ UNCHANGED hostVars

(***************************************************************************)
(* The end of a refresh.  Returned: the host stores the value in           *)
(* coordinator.data, and a first refresh goes on to register the           *)
(* coordinator.  Raised: coordinator.data stays, and a first refresh ends  *)
(* async_setup_entry with ConfigEntryNotReady, the coordinator dropped.    *)
(***************************************************************************)
Returned(val) ==
    /\ pc' = "idle"
    /\ lastOutcome' = "returned"
    /\ lastResult' = val
    /\ data' = val
    /\ last_update_success' = TRUE
    /\ hadReading' = (hadReading \/ Truthy(val))
    /\ phase' = "loaded"
    /\ registry' = registry \cup {EntryId}
    /\ entityRegistered' = (entityRegistered \/ phase = "first_refresh")
    /\ UNCHANGED <<stamp, divisor, ctorStamp, ctorDivisor>>

\* a set-up that stores the coordinator although its first refresh failed
RaisedKeepsCoordinator ==
    /\ pc' = "idle"
    /\ lastOutcome' = "raised"
    /\ lastResult' = None
    /\ last_update_success' = FALSE
    /\ registry' = registry \cup {EntryId}
    /\ phase' = "loaded"
    /\ UNCHANGED <<hadReading, entityRegistered, data, stamp, divisor,
                   ctorStamp, ctorDivisor>>

Raised ==
    /\ pc' = "idle"
    /\ lastOutcome' = "raised"
    /\ lastResult' = None
    /\ last_update_success' = FALSE
    /\ UNCHANGED <<registry, hadReading, entityRegistered>>
    /\ IF phase = "first_refresh"
       THEN /\ phase' = "absent"
            /\ data' = None
            /\ stamp' = 0
            /\ divisor' = 0
            /\ ctorStamp' = 0
            /\ ctorDivisor' = 0
       ELSE UNCHANGED <<phase, data, stamp, divisor, ctorStamp, ctorDivisor>>

\* one pass of the while loop of _async_update_data, meeting outcome o
Attempt(o) ==
    /\ pc = "attempt"
    /\ retry_count < max_retries
    /\ clock < MaxClock
    /\ LET now == clock + 1
           r == Iteration(o, data, retry_count, stamp, divisor, now)
       IN  /\ clock' = now
           /\ requests' = requests + 1
           /\ lastHeader' = HeaderStamp(stamp)
           /\ outcomes' = Append(outcomes, Kind(o))
           /\ lastStatus' = o.status
           /\ lastItems' = IF o.kind = "response" /\ o.body.valid
                           THEN o.body.items ELSE << >>
           /\ retry_count' = r.rc
           /\ CASE r.ctl = "return" -> Returned(r.val)
                [] r.ctl = "raise" -> Raised
                [] OTHER ->
                     /\ pc' = r.ctl
                     /\ UNCHANGED <<phase, registry, stamp, divisor, data,
                                    last_update_success, lastOutcome,
                                    lastResult, hadReading, ctorStamp,
                                    ctorDivisor, entityRegistered>>
    /\ UNCHANGED <<waits, slept, dataBefore, installStamp, service_registered>>
    /\ UNCHANGED hostVars

\* lines 225-226: asyncio.sleep(2), continue
SleepContinue ==
    /\ pc = "sleep_continue"
    /\ pc' = "attempt"
    /\ waits' = waits + 1
    /\ slept' = slept + RetryWait
    /\ UNCHANGED <<phase, registry, stamp, divisor, data, last_update_success,
                   retry_count, clock, requests, outcomes, lastStatus,
                   lastItems, dataBefore, lastOutcome, lastResult, lastHeader,
                   hadReading, ctorStamp, ctorDivisor, installStamp,
                   service_registered, entityRegistered>>
    /\ UNCHANGED hostVars

\* lines 238-241: asyncio.sleep(2), then the break after the try statement;
\* the function ends without a return statement, so it returns None
SleepBreak ==
    /\ pc = "sleep_break"
    /\ waits' = waits + 1
    /\ slept' = slept + RetryWait
    /\ Returned(None)
    /\ UNCHANGED <<retry_count, clock, requests, outcomes, lastStatus,
                   lastItems, dataBefore, lastHeader, installStamp,
                   service_registered>>
    /\ UNCHANGED hostVars

\* async_unload_entry; unload_ok is what async_unload_platforms answered,
\* and what async_unload_entry returns.
\* With the last coordinator popped, async_unload_services removes the service.
UnloadEntry(unload_ok) ==
    /\ phase = "loaded"
    /\ pc = "idle"
    /\ IF unload_ok
       THEN /\ registry' = registry \ {EntryId}
            /\ phase' = "absent"
            /\ stamp' = 0
            /\ divisor' = 0
            /\ data' = None
            /\ last_update_success' = TRUE
            /\ retry_count' = 0
            /\ requests' = 0
            /\ waits' = 0
            /\ slept' = 0
            /\ outcomes' = << >>
            /\ lastStatus' = 0
            /\ lastItems' = << >>
            /\ dataBefore' = None
            /\ lastOutcome' = "none"
            /\ lastResult' = None
            /\ lastHeader' = 0
            /\ hadReading' = FALSE
            /\ ctorStamp' = 0
            /\ ctorDivisor' = 0
            /\ service_registered' =
                   (IF registry \ {EntryId} = {} THEN FALSE
                    ELSE service_registered)
            /\ unloadFailed' = FALSE
            /\ UNCHANGED <<pc, clock, installStamp, entityRegistered>>
       ELSE /\ unloadFailed' = TRUE
            /\ UNCHANGED coordVars
    /\ UNCHANGED flowCallVars

(***************************************************************************)
(* The sensor entity (sensor.py): what it publishes of coordinator.data.   *)
(***************************************************************************)
Value(v) == [value |-> v]

EmptyDict == [k \in {} |-> None]

\* a sensor that takes a value of 0 for no value
NativeValueFalsy(d) ==
    IF ~Truthy(d) \/ d.value = 0 THEN None ELSE Value(d.value)

\* RadiationSensor.native_value
NativeValue(d) ==
    IF ~Truthy(d) THEN None ELSE Value(d.value)

\* RadiationSensor.extra_state_attributes
ExtraStateAttributes(d) ==
    IF ~Truthy(d) THEN EmptyDict
    ELSE LET keys == {"timestamp", "station_code", "raw_value", "stamp",
                      "divisor"}
                     \cup { k \in {"returned_code", "status"} : k \in DOMAIN d }
         IN  [k \in keys |-> d[k]]

(***************************************************************************)
(* The config flow (config_flow.py).                                       *)
(***************************************************************************)
\* the station codes a user may enter
FlowCodes == {StationCode, OtherStationCode}

\* a validation that rejects what shows no data for the station
TestStationCodeStrict(o) ==
    CASE o.kind # "response" -> FALSE
      [] o.status # HTTP_OK -> FALSE
      [] ~o.body.valid -> FALSE
      [] Len(o.body.items) > 0 -> TRUE
      [] OTHER -> FALSE

\* _test_station_code: what it returns for what its one request met
TestStationCode(o) ==
    CASE o.kind # "response" -> TRUE      \* except Exception: return True
      [] o.status # HTTP_OK -> TRUE       \* status != 200: return True
      [] ~o.body.valid -> TRUE            \* response.json() raised
      [] Len(o.body.items) > 0 -> TRUE    \* data and len(data) > 0
      [] OTHER -> TRUE                    \* an empty array

\* async_step_user: given is `user_input is not None`, code the station code
\* entered, o what the validation request meets, st the stamp drawn for it
StepUser(given, code, o, st) ==
    /\ IF ~given
       THEN /\ flowResult' = "form"
            /\ flowMet' = "nothing"
            /\ testStamp' = 0
            /\ UNCHANGED configured
       ELSE IF code \in configured
       THEN /\ flowResult' = "abort_already_configured"
            /\ flowMet' = "nothing"
            /\ testStamp' = 0
            /\ UNCHANGED configured
       ELSE /\ flowMet' = Kind(o)
            /\ testStamp' = st
            /\ IF TestStationCode(o)
               THEN /\ flowResult' = "create_entry"
                    /\ configured' = configured \cup {code}
               ELSE /\ flowResult' = "form_invalid_station_code"
                    /\ UNCHANGED configured
    /\ UNCHANGED coordVars
    /\ UNCHANGED <<callEntity, callResult, callTarget, otherEntity,
                   unloadFailed>>

(***************************************************************************)
(* A second config entry, kept abstract: only its place in the registry    *)
(* and its sensor in the entity registry are modelled, its set-up taken at *)
(* the point where its first refresh has succeeded.                        *)
(***************************************************************************)
SetupOtherEntry ==
    /\ OtherStationCode \in configured
    /\ OtherEntryId \notin registry
    /\ registry' = registry \cup {OtherEntryId}
    /\ otherEntity' = TRUE
    /\ UNCHANGED <<phase, stamp, divisor, data, last_update_success, pc,
                   retry_count, clock, requests, waits, slept, outcomes,
                   lastStatus, lastItems, dataBefore, lastOutcome, lastResult,
                   lastHeader, hadReading, ctorStamp, ctorDivisor,
                   installStamp, service_registered, entityRegistered>>
    /\ UNCHANGED <<configured, flowResult, flowMet, testStamp, callEntity,
                   callResult, callTarget, unloadFailed>>

UnloadOtherEntry ==
    /\ OtherEntryId \in registry
    /\ registry' = registry \ {OtherEntryId}
    /\ service_registered' =
           (IF registry \ {OtherEntryId} = {} THEN FALSE
            ELSE service_registered)
    /\ UNCHANGED <<phase, stamp, divisor, data, last_update_success, pc,
                   retry_count, clock, requests, waits, slept, outcomes,
                   lastStatus, lastItems, dataBefore, lastOutcome, lastResult,
                   lastHeader, hadReading, ctorStamp, ctorDivisor,
                   installStamp, entityRegistered>>
    /\ UNCHANGED hostVars

(***************************************************************************)
(* The update_radiation_data service (services.py).                        *)
(***************************************************************************)
Domain == "radiation_monitor"

\* the entity ids a caller may pass
Entities == {"sensor.st1", "sensor.zz9", "light.kitchen", "sensor.unknown"}

\* er.async_get(hass).async_get(entity_id)
EntityEntry(e) ==
    CASE e = "sensor.st1" /\ entityRegistered ->
             [platform |-> Domain, config_entry_id |-> EntryId]
      [] e = "sensor.zz9" /\ otherEntity ->
             [platform |-> Domain, config_entry_id |-> OtherEntryId]
      [] e = "light.kitchen" ->
             [platform |-> "hue", config_entry_id |-> "entry9"]
      [] OTHER -> None

\* a lookup that finds a coordinator for every entry id
CoordinatorUnchecked(config_entry_id) == [entry |-> config_entry_id]

\* hass.data[DOMAIN].get(config_entry_id)
Coordinator(config_entry_id) ==
    IF config_entry_id \in registry THEN [entry |-> config_entry_id]
    ELSE None

\* coordinator.async_request_refresh(): the refresh of this entry's
\* coordinator begins when none is in progress; what the host does with a
\* request that meets a refresh in progress is not modelled, and the second
\* entry's coordinator is abstract
RequestRefresh(coordinator) ==
    IF coordinator.entry = EntryId /\ pc = "idle"
    THEN /\ EnterUpdate(data)
         /\ UNCHANGED <<phase, registry, stamp, divisor, data,
                        last_update_success, clock, lastHeader, hadReading,
                        ctorStamp, ctorDivisor, installStamp,
                        service_registered, entityRegistered>>
    ELSE UNCHANGED coordVars

\* async_update_radiation_data(call) with call.data["entity_id"] = e
ServiceCall(e) ==
    /\ service_registered
    /\ clock + max_retries <= MaxClock
    /\ callEntity' = e
    /\ LET entity_entry == EntityEntry(e)
       IN  IF ~Truthy(entity_entry) \/ entity_entry.platform # Domain
           THEN /\ callResult' = "invalid_entity"
                /\ callTarget' = "none"
                /\ UNCHANGED coordVars
           ELSE LET coordinator == Coordinator(entity_entry.config_entry_id)
                IN  IF ~Truthy(coordinator)
                    THEN /\ callResult' = "no_coordinator"
                         /\ callTarget' = "none"
                         /\ UNCHANGED coordVars
                    ELSE /\ callResult' = "requested"
                         /\ callTarget' = coordinator.entry
                         /\ RequestRefresh(coordinator)
    /\ UNCHANGED <<configured, flowResult, flowMet, testStamp, otherEntity,
                   unloadFailed>>

Next ==
    \/ SetupEntry(StampChoices)
    \/ RefreshStart
    \/ \E o \in Outcomes : Attempt(o)
    \/ SleepContinue
    \/ SleepBreak
    \/ \E ok \in BOOLEAN : UnloadEntry(ok)

Spec == Init /\ [][Next]_vars

(***************************************************************************)
(* The same coordinator with the stamp drawn from the whole of             *)
(* random.randint(20, 999), against a remote that answers or times out.    *)
(***************************************************************************)
StampOutcomes ==
    { Response(200, [valid |-> TRUE, items |-> << >>]),
      Response(200, [valid |-> TRUE,
                     items |-> << Sample(TRUE, 1, FALSE, 0, FALSE, "") >>]),
      Response(500, [valid |-> FALSE, items |-> << >>]),
      OtherException }

NextStamp ==
    \/ SetupEntry(StampRange)
    \/ RefreshStart
    \/ \E o \in StampOutcomes : Attempt(o)
    \/ SleepBreak

SpecStamp == Init /\ [][NextStamp]_vars

(***************************************************************************)
(* One outcome of each kind.                                               *)
(***************************************************************************)
KindOutcomes ==
    { ClientError, OtherException,
      Response(500, [valid |-> FALSE, items |-> << >>]),
      Response(204, [valid |-> TRUE, items |-> << >>]),
      Response(200, [valid |-> FALSE, items |-> << >>]),
      Response(200, [valid |-> TRUE, items |-> << >>]),
      Response(200, [valid |-> TRUE,
                     items |-> << Sample(TRUE, 1, FALSE, 0, FALSE, "") >>]),
      Response(200, [valid |-> TRUE,
                     items |-> << Sample(FALSE, 0, TRUE, 1, TRUE, "ST1") >>]) }

(***************************************************************************)
(* The integration with its config flow: entries are created, set up,      *)
(* refreshed and unloaded.                                                 *)
(***************************************************************************)
\* what _test_station_code tells apart
FlowOutcomes ==
    { OtherException,
      Response(500, [valid |-> FALSE, items |-> << >>]),
      Response(200, [valid |-> FALSE, items |-> << >>]),
      Response(200, [valid |-> TRUE, items |-> << >>]),
      Response(200, [valid |-> TRUE,
                     items |-> << Sample(TRUE, 1, FALSE, 0, FALSE, "") >>]) }

HostOutcomes ==
    { ClientError, OtherException,
      Response(200, [valid |-> TRUE, items |-> << >>]),
      Response(200, [valid |-> TRUE,
                     items |-> << Sample(TRUE, 1, FALSE, 0, FALSE, "") >>]) }

HostStamps == {StampMin, StampMax}

NextHost ==
    \/ \E g \in BOOLEAN, c \in FlowCodes, o \in FlowOutcomes,
          st \in HostStamps : StepUser(g, c, o, st)
    \/ SetupEntry(HostStamps)
    \/ RefreshStart
    \/ \E o \in HostOutcomes : Attempt(o)
    \/ SleepContinue
    \/ SleepBreak
    \/ \E ok \in BOOLEAN : UnloadEntry(ok)

SpecHost == Init /\ [][NextHost]_vars

(***************************************************************************)
(* The coordinator alone, every request and every wait of a refresh in     *)
(* progress coming to its end.                                             *)
(***************************************************************************)
NextLive ==
    \/ SetupEntry(HostStamps)
    \/ RefreshStart
    \/ \E o \in KindOutcomes : Attempt(o)
    \/ SleepContinue
    \/ SleepBreak
    \/ \E ok \in BOOLEAN : UnloadEntry(ok)

SpecLive ==
    /\ Init
    /\ [][NextLive]_vars
    /\ WF_vars(\E o \in KindOutcomes : Attempt(o))
    /\ WF_vars(SleepContinue)
    /\ WF_vars(SleepBreak)

(***************************************************************************)
(* The entries' life cycle with the service: two entries are set up and    *)
(* unloaded in any order, and the service is called with any entity id.    *)
(***************************************************************************)
NextService ==
    \/ SetupEntry(HostStamps)
    \/ RefreshStart
    \/ \E o \in HostOutcomes : Attempt(o)
    \/ SleepContinue
    \/ SleepBreak
    \/ \E ok \in BOOLEAN : UnloadEntry(ok)
    \/ SetupOtherEntry
    \/ UnloadOtherEntry
    \/ \E e \in Entities : ServiceCall(e)

SpecService == Init /\ [][NextService]_vars

(***************************************************************************)
(* Properties.  A refresh is over when lastOutcome is "returned" or        *)
(* "raised"; outcomes lists what its requests met, in order.               *)
(***************************************************************************)
RefreshOver == pc = "idle" /\ lastOutcome \in {"returned", "raised"}

LastMet == IF outcomes = << >> THEN "nothing" ELSE outcomes[Len(outcomes)]

IsReading(r) == r # None

\* the 2xx range
SuccessStatus(s) == s \in 200..299

FailureKinds ==
    {"bad_status", "client_error", "other_exc", "undecodable", "no_value"}

\* C1: once some refresh of a coordinator has returned a Reading, no later
\* refresh of it raises UpdateFailed to its caller.
C1_NoFailureAfterReading ==
    lastOutcome = "raised" => ~hadReading

\* C2: a refresh that begins with a Reading R held and ends without a
\* successful fetch leaves the held reading exactly R.
C2_StaleRetained ==
    (RefreshOver /\ IsReading(dataBefore) /\ LastMet \in FailureKinds)
        => data = dataBefore

\* C3: a non-success status met with no prior reading ends the refresh by
\* raising UpdateFailed; the refresh does not complete normally.
C3_BadStatusNoPriorRaises ==
    (RefreshOver /\ LastMet = "bad_status" /\ ~SuccessStatus(lastStatus)
                 /\ ~IsReading(dataBefore))
        => lastOutcome = "raised"

\* C4: a non-success status met with a prior reading R held makes the
\* refresh return R itself, every field as it was, with no error, no retry
\* taken and no wait: when it is the first response, after one request.
C4_BadStatusReturnsStale ==
    (LastMet = "bad_status" /\ IsReading(dataBefore))
        => /\ pc = "idle"
           /\ lastOutcome = "returned"
           /\ lastResult = dataBefore
           /\ data = dataBefore
           /\ last_update_success
           /\ requests = Len(outcomes)
           /\ waits = Len(outcomes) - 1
           /\ retry_count = Len(outcomes) - 1
           /\ (Len(outcomes) = 1 => requests = 1 /\ waits = 0 /\ slept = 0)

C4_Witness ==
    /\ outcomes = << "bad_status" >>
    /\ lastStatus = 500
    /\ IsReading(dataBefore)
    /\ lastOutcome = "returned"
    /\ lastResult = dataBefore
    /\ dataBefore.timestamp.t < clock

\* C5: a successful response that decodes to an empty array returns, with
\* no prior reading, the placeholder (value 0, raw_value 0, status "No data
\* available", the coordinator's station_code, stamp and divisor), and with
\* a prior reading that prior reading.
C5_EmptyArray ==
    LastMet = "empty"
        => /\ pc = "idle"
           /\ lastOutcome = "returned"
           /\ data = lastResult
           /\ IF IsReading(dataBefore)
              THEN lastResult = dataBefore
              ELSE /\ IsReading(lastResult)
                   /\ "status" \in DOMAIN lastResult
                   /\ lastResult.value = 0
                   /\ lastResult.raw_value = 0
                   /\ lastResult.status = "No data available"
                   /\ lastResult.station_code = StationCode
                   /\ lastResult.stamp = ctorStamp
                   /\ lastResult.divisor = ctorDivisor
                   /\ lastResult.timestamp = NowTs(clock)

C5_Witness ==
    /\ LastMet = "empty"
    /\ ~IsReading(dataBefore)
    /\ lastOutcome = "returned"
    /\ IsReading(lastResult)
    /\ lastResult.value = 0

C5_WitnessPrior ==
    /\ LastMet = "empty"
    /\ IsReading(dataBefore)
    /\ "status" \notin DOMAIN dataBefore
    /\ lastOutcome = "returned"

\* v thousandths is x / dv rounded to three decimals, ties to even
IsRoundedQuotient(v, x, dv) ==
    /\ 2 * (v * dv - x * 1000) <= dv
    /\ 2 * (x * 1000 - v * dv) <= dv
    /\ (2 * (x * 1000 - v * dv) = dv \/ 2 * (v * dv - x * 1000) = dv)
           => v % 2 = 0

\* C6: a successful response decoding to a non-empty array whose last
\* element has a value returns the Reading built from the last element
\* alone: its value as raw_value, raw_value / divisor rounded to 3 decimals
\* as value, its date (else the current time) as timestamp, its code (else
\* "unknown") as returned_code, and the configured station code.
C6_LastElementOnly ==
    LastMet = "sample"
        => LET e == lastItems[Len(lastItems)]
           IN  /\ pc = "idle"
               /\ lastOutcome = "returned"
               /\ data = lastResult
               /\ DOMAIN lastResult =
                      {"value", "raw_value", "timestamp", "station_code",
                       "returned_code", "stamp", "divisor"}
               /\ lastResult.raw_value = e.value
               /\ IsRoundedQuotient(lastResult.value, e.value, ctorDivisor)
               /\ lastResult.timestamp =
                      (IF e.has_date THEN DateTs(e.date) ELSE NowTs(clock))
               /\ lastResult.returned_code =
                      (IF e.has_code THEN e.code ELSE "unknown")
               /\ lastResult.station_code = StationCode

\* the spec's example: [{value:10,date:d1},{value:20,date:d2}], stamp 500
C6_Witness ==
    /\ LastMet = "sample"
    /\ Len(lastItems) = 2
    /\ lastItems[1].value = 10
    /\ lastItems[2].value = 20
    /\ ctorStamp = 500
    /\ lastResult.raw_value = 20
    /\ lastResult.value = 40
    /\ lastResult.timestamp = DateTs(2)
    /\ lastResult.returned_code # lastResult.station_code

\* a tie: 1 / 16 = 0.0625 rounds to 0.062
C6_WitnessTie ==
    /\ LastMet = "sample"
    /\ ctorDivisor = 16
    /\ lastResult.raw_value = 1
    /\ lastResult.value = 62
    /\ lastResult.timestamp = NowTs(clock)
    /\ lastResult.returned_code = "unknown"

OnlyClientErrorsBeforeLast ==
    \A i \in 1..(Len(outcomes) - 1) : outcomes[i] = "client_error"

\* C7: within one refresh, k < 3 transport failures followed by a
\* successful fetch return that fetch's Reading after exactly k waits of 2
\* seconds each and exactly k + 1 requests.
C7_RetryThenSuccess ==
    (LastMet = "sample" /\ OnlyClientErrorsBeforeLast)
        => LET k == Len(outcomes) - 1
           IN  /\ k < 3
               /\ pc = "idle"
               /\ lastOutcome = "returned"
               /\ IsReading(lastResult)
               /\ lastResult.raw_value = lastItems[Len(lastItems)].value
               /\ data = lastResult
               /\ requests = k + 1
               /\ waits = k
               /\ slept = 2 * k

C7_Witness ==
    /\ outcomes = << "client_error", "client_error", "sample" >>
    /\ lastOutcome = "returned"
    /\ IsReading(lastResult)
    /\ waits = 2
    /\ slept = 4
    /\ requests = 3

\* C8: with no prior reading, three transport failures in a row end the
\* refresh with UpdateFailed after exactly 3 requests and 2 waits: there is
\* no fourth request and nothing is returned.
C8_RetryExhaustion ==
    /\ requests <= 3
    /\ (Len(outcomes) >= 3 /\ ~IsReading(dataBefore)
            /\ \A i \in 1..3 : outcomes[i] = "client_error")
        => /\ pc = "idle"
           /\ lastOutcome = "raised"
           /\ lastResult = None
           /\ ~IsReading(data)
           /\ ~last_update_success
           /\ requests = 3
           /\ Len(outcomes) = 3
           /\ waits = 2
           /\ slept = 4

C8_Witness ==
    /\ outcomes = << "client_error", "client_error", "client_error" >>
    /\ ~IsReading(dataBefore)
    /\ lastOutcome = "raised"
    /\ requests = 3
    /\ waits = 2

C10_DivisorRange ==
    phase # "absent"
        => /\ stamp \in 20..999
           /\ divisor = 1001 - stamp
           /\ divisor \in 2..981
           /\ divisor # 0
           /\ stamp = ctorStamp
           /\ divisor = ctorDivisor
           /\ IsReading(lastResult)
                 => /\ lastResult.stamp = ctorStamp
                    /\ lastResult.divisor = ctorDivisor
           /\ IsReading(data)
                 => /\ data.stamp = ctorStamp
                    /\ data.divisor = ctorDivisor

C10_Witness ==
    /\ phase = "loaded"
    /\ stamp = 999
    /\ divisor = 2
    /\ LastMet = "sample"
    /\ IsReading(lastResult)
    /\ lastResult.divisor = 2
    /\ lastResult.value = 500

C10_WitnessLow ==
    /\ phase = "loaded"
    /\ stamp = 20
    /\ divisor = 981
    /\ LastMet = "empty"
    /\ "status" \in DOMAIN lastResult
    /\ lastResult.divisor = 981

\* C11: _test_station_code accepts the station code whatever its request
\* meets, so async_step_user with a station code not yet configured creates
\* the entry and never reports invalid_station_code; the request carries
\* the stamp drawn for it and the step changes no coordinator state.
C11_PermissiveValidation ==
    [][ \A c \in FlowCodes, o \in FlowOutcomes, st \in HostStamps :
          (c \notin configured /\ StepUser(TRUE, c, o, st))
              => /\ flowResult' = "create_entry"
                 /\ c \in configured'
                 /\ flowMet' = Kind(o)
                 /\ testStamp' = st
                 /\ UNCHANGED coordVars ]_vars

C11_Witness ==
    /\ flowResult = "create_entry"
    /\ flowMet = "undecodable"
    /\ "ZZ9" \in configured
    /\ phase = "loaded"
    /\ IsReading(data)
    /\ testStamp # 0
    /\ testStamp # stamp

C11_WitnessTransport ==
    /\ flowResult = "create_entry"
    /\ flowMet = "other_exc"

\* C12: the sensor publishes the held reading: no value and no attributes
\* when none is held; otherwise the reading's value, and as attributes its
\* timestamp, station_code, raw_value, stamp and divisor always, its
\* returned_code and status when it has them; a status appears only for the
\* no-data placeholder.
C12_SensorPublishesReading ==
    LET attrs == ExtraStateAttributes(data)
    IN  IF ~IsReading(data)
        THEN NativeValue(data) = None /\ DOMAIN attrs = {}
        ELSE /\ NativeValue(data) # None
             /\ NativeValue(data).value = data.value
             /\ {"timestamp", "station_code", "raw_value", "stamp", "divisor"}
                    \subseteq DOMAIN attrs
             /\ DOMAIN attrs = DOMAIN data \ {"value"}
             /\ \A k \in DOMAIN attrs : attrs[k] = data[k]
             /\ "status" \in DOMAIN attrs
                    => /\ data.status = "No data available"
                       /\ data.value = 0
                       /\ data.raw_value = 0
                       /\ data.returned_code = "unknown"
                       /\ data.timestamp.src = "utcnow"

C12_Witness ==
    /\ IsReading(data)
    /\ "status" \in DOMAIN ExtraStateAttributes(data)
    /\ NativeValue(data) = Value(0)

C12_WitnessFresh ==
    /\ IsReading(data)
    /\ DOMAIN ExtraStateAttributes(data) =
           {"timestamp", "station_code", "raw_value", "stamp", "divisor",
            "returned_code"}
    /\ ExtraStateAttributes(data).returned_code = "ZZ9"
    /\ NativeValue(data) = Value(40)

C12_WitnessNone ==
    /\ phase = "loaded"
    /\ ~IsReading(data)
    /\ NativeValue(data) = None

\* C13: a call of update_radiation_data with an entity of this integration
\* whose config entry has a coordinator in the registry requests a refresh of
\* exactly that entry's coordinator (which begins when that coordinator is
\* idle); a call with an unknown entity, an entity of another platform, or an
\* entity whose coordinator is not in the registry starts no refresh and
\* changes nothing of any coordinator, of the registries or of the flow.
C13_ServiceTargetsOwnCoordinator ==
    [][ \A e \in Entities :
          ServiceCall(e) =>
            LET ent == EntityEntry(e)
                own == /\ ent # None
                       /\ ent.platform = Domain
                       /\ ent.config_entry_id \in registry
            IN  IF own
                THEN /\ callResult' = "requested"
                     /\ callTarget' = ent.config_entry_id
                     /\ (ent.config_entry_id = EntryId /\ pc = "idle")
                            => /\ pc' = "attempt"
                               /\ lastOutcome' = "pending"
                               /\ dataBefore' = data
                               /\ requests' = 0
                     /\ ent.config_entry_id # EntryId => UNCHANGED coordVars
                     /\ UNCHANGED <<phase, registry, data, stamp, divisor,
                                    service_registered, entityRegistered,
                                    otherEntity, configured>>
                ELSE /\ callResult' # "requested"
                     /\ callTarget' = "none"
                     /\ UNCHANGED coordVars
                     /\ UNCHANGED <<configured, flowResult, flowMet,
                                    testStamp, otherEntity>> ]_vars

C13_Witness ==
    /\ callEntity = "sensor.st1"
    /\ callResult = "requested"
    /\ callTarget = EntryId
    /\ pc = "attempt"
    /\ requests = 0
    /\ OtherEntryId \in registry

C13_WitnessNoCoordinator ==
    /\ callEntity = "sensor.st1"
    /\ callResult = "no_coordinator"
    /\ EntryId \notin registry
    /\ pc = "idle"

C13_WitnessOtherPlatform ==
    /\ callEntity = "light.kitchen"
    /\ callResult = "invalid_entity"
    /\ phase = "loaded"

C13_WitnessOtherEntry ==
    /\ callEntity = "sensor.zz9"
    /\ callResult = "requested"
    /\ callTarget = OtherEntryId
    /\ phase = "loaded"

\* C14: an exception that is not a client error, raised while retry budget
\* remains, is followed by another request: a refresh whose last request met
\* such an exception has used all its requests.
C14_OtherExceptionRetried ==
    (RefreshOver /\ LastMet = "other_exc") => requests = max_retries

\* C15: a last sample without a value ends the refresh at once, with the
\* prior reading or with a failure: one request, no wait, no retry counted,
\* and never an absent result.
C15_MissingValueNotRetried ==
    (RefreshOver /\ LastMet = "no_value")
        => /\ waits = 0
           /\ retry_count = Len(outcomes) - 1
           /\ IF IsReading(dataBefore)
              THEN lastOutcome = "returned" /\ lastResult = dataBefore
              ELSE lastOutcome = "raised"

\* the last request was answered, with a body whose last sample has a value
AnsweredWithValue ==
    /\ RefreshOver
    /\ lastStatus # 0
    /\ Len(lastItems) > 0
    /\ lastItems[Len(lastItems)].has_value

\* C16: every response of the 2xx range is decoded: when its body is a
\* non-empty array whose last sample has a value, the refresh returns the
\* Reading built from that sample.
C16_Every2xxDecoded ==
    (AnsweredWithValue /\ SuccessStatus(lastStatus))
        => /\ lastOutcome = "returned"
           /\ IsReading(lastResult)
           /\ lastResult.raw_value = lastItems[Len(lastItems)].value
           /\ lastResult.stamp = ctorStamp

\* C16 as the code has it: only status 200 is decoded.  A response with any
\* other status, those of the 2xx range included, is never decoded: with a
\* prior Reading the refresh returns that Reading at once, without one it
\* yields no Reading, whatever the body holds.
C16_Only200Decoded ==
    AnsweredWithValue
        => IF lastStatus = HTTP_OK
           THEN /\ lastOutcome = "returned"
                /\ IsReading(lastResult)
                /\ lastResult.raw_value = lastItems[Len(lastItems)].value
           ELSE IF IsReading(dataBefore)
           THEN /\ lastOutcome = "returned"
                /\ lastResult = dataBefore
                /\ data = dataBefore
                /\ retry_count = Len(outcomes) - 1
                /\ waits = Len(outcomes) - 1
           ELSE lastOutcome = "raised" \/ ~IsReading(lastResult)

C16_Witness ==
    /\ AnsweredWithValue
    /\ lastStatus = 204
    /\ IsReading(dataBefore)
    /\ lastResult = dataBefore
    /\ lastResult.raw_value # lastItems[Len(lastItems)].value
    /\ waits = 0

\* C17: every refresh ends, its requests and waits each coming to an end,
\* after at most 3 requests and at most 2 waits, whatever its requests meet.
C17_RefreshTerminatesBounded ==
    /\ [](requests <= max_retries /\ waits <= max_retries - 1)
    /\ [](pc # "idle" => <>RefreshOver)

C17_Witness ==
    /\ RefreshOver
    /\ requests = max_retries
    /\ waits = max_retries - 1

C17_WitnessShort ==
    /\ RefreshOver
    /\ LastMet = "other_exc"
    /\ requests = 1
    /\ waits = 1

\* C19: a refresh that completes without raising returns a Reading, never
\* an absent result, and the host then holds a Reading.
C19_ReturnsReading ==
    (RefreshOver /\ lastOutcome = "returned")
        => IsReading(lastResult) /\ IsReading(data)

\* C20: while the registry holds a coordinator, the update_radiation_data
\* service is registered.
C20_ServiceWhileLoaded ==
    registry # {} => service_registered

\* the no-data placeholder of lines 181-190
IsPlaceholder(r) == IsReading(r) /\ "status" \in DOMAIN r

\* C21: a held placeholder counts as the prior reading: a refresh that
\* begins holding it and gets an empty array or a failed fetch (a status
\* other than 200, a transport failure, a timeout) returns that same
\* placeholder, original timestamp included, and the host goes on holding it.
C21_PlaceholderIsPrior ==
    (/\ RefreshOver
     /\ IsPlaceholder(dataBefore)
     /\ LastMet \in {"empty", "bad_status", "client_error", "other_exc"})
        => /\ lastOutcome = "returned"
           /\ lastResult = dataBefore
           /\ data = dataBefore

\* C22: the registry holds the entry's coordinator only between a set-up
\* whose first refresh completed without failure and the next unload that
\* succeeded: it gains the coordinator only when a first refresh returns and
\* loses it only in an unload that answers success; a set-up whose first
\* refresh fails and an unload that answers failure leave it unchanged.
C22_RegistryTracksSetup ==
    /\ [](EntryId \in registry <=> phase = "loaded")
    /\ [][ /\ (EntryId \notin registry /\ EntryId \in registry')
                 => /\ phase = "first_refresh"
                    /\ lastOutcome' = "returned"
                    /\ last_update_success'
           /\ (EntryId \in registry /\ EntryId \notin registry')
                 => /\ phase = "loaded"
                    /\ pc = "idle"
                    /\ phase' = "absent"
                    /\ ~unloadFailed'
           /\ (phase = "first_refresh" /\ lastOutcome' = "raised")
                 => /\ registry' = registry
                    /\ phase' = "absent"
           /\ (~unloadFailed /\ unloadFailed')
                 => /\ registry' = registry
                    /\ UNCHANGED coordVars ]_vars

\* an unload has failed and the coordinator is still registered
C22_Witness ==
    /\ unloadFailed
    /\ EntryId \in registry
    /\ phase = "loaded"
    /\ lastOutcome = "returned"

\* a set-up whose first refresh failed has left the registry empty
C22_WitnessSetupFailed ==
    /\ phase = "absent"
    /\ lastOutcome = "raised"
    /\ registry = {}

====
